---- MODULE Spec2Model ----
(***************************************************************************)
(* Model of the notebook "urban-rural income prediction": the synthetic    *)
(* panel generator (cell 65ee155c) and the evaluation cells that follow    *)
(* it (split/scale, benchmark, attribution, regional models, policy        *)
(* counterfactual).                                                        *)
(*                                                                         *)
(* Number representation (the notebook uses floats, the model integers):   *)
(*   gdp_pc, edu_exp, med_exp          hundreds of yuan (80000 -> 800)     *)
(*   net_access, urban_ratio,                                              *)
(*   policy_index, unemp_rate,                                             *)
(*   infra_score, uniform factors      hundredths      (0.5 -> 50)         *)
(*   rural_income, urban_income        yuan                                *)
(*   scaled covariates                 hundredths of a standard deviation  *)
(* Region labels: "East" = '东部', "Central" = '中部', "West" = '西部'.    *)
(***************************************************************************)
EXTENDS Integers, Sequences, FiniteSets, TLC

VARIABLES
    pc,        \* next notebook statement to execute
    run,       \* 1 = first run of the notebook, 2 = second, separate run
    bitgen,    \* which stream the library generator yields for a seed
    rng,       \* state of the process-wide generator np.random
    entropy,   \* the state np.random had when the process started
    regions,   \* regions[c]: label drawn for city c
    city,      \* outer loop variable (index into cities)
    year,      \* inner loop variable
    data,      \* the growing list of rows
    calls,     \* calls[i]: the np.random calls made while building row i
    heap,      \* the DataFrame objects; a frame variable holds an index into it
    df, X, X_train, X_test, X_sim,     \* frame variables (0 = not yet bound)
    y, y_train, y_test,                \* target series
    scaler,    \* the StandardScaler's parameters
    fitlog,    \* fitlog[k]: index labels of the rows the k-th fit call saw
    X_train_scaled, X_test_scaled, X_sim_scaled,
    results,   \* one entry per train_and_evaluate call
    shap,      \* the attribution cell's model and explainer inputs
    regional,  \* one entry per iteration of the regional loop
    policy,    \* model_final, y_before, y_after
    prev       \* what the first run reported, kept for comparison

genVars == <<regions, city, year, data, calls>>
frameVars == <<heap, df, X, X_train, X_test, X_sim, y, y_train, y_test>>
scalerVars == <<scaler, fitlog, X_train_scaled, X_test_scaled, X_sim_scaled>>
evalVars == <<results, shap, regional, policy>>
vars == <<pc, run, bitgen, rng, entropy, genVars, frameVars, scalerVars, evalVars, prev>>

----------------------------------------------------------------------------
(* Bounds of the model *)
NumCities == 3
NumStreams == 20
NumEntropy == 2

(* Constants of the program *)
CityCount == 100
GenSeed == 42
SplitSeed == 0
TestPct == 20
PolicyStep == 20
FirstYear == 2018
YearStop == 2023

(* The library generator: a seedable deterministic stream of states *)
Modulus == 65537
Multiplier == 75
Increment == 74

Cities == 1..NumCities
Years_short == FirstYear..(YearStop - 2)
Years == FirstYear..(YearStop - 1)
RegionLabels == <<"East", "Central", "West">>
Covariates == {"gdp_pc", "net_access", "edu_exp", "med_exp", "urban_ratio",
               "policy_index", "infra_score", "unemp_rate"}

----------------------------------------------------------------------------
(* np.random: seeding and drawing *)

SeedState_keep(seed, old) == old
SeedState(seed, old) == (seed * Multiplier + bitgen * 1009 + 1) % Modulus

NextState(s) == (s * Multiplier + Increment) % Modulus

RECURSIVE Advance(_, _)
Advance(s, k) == IF k = 0 THEN s ELSE Advance(NextState(s), k - 1)

\* a uniform variate on [0, 1), in tenths
Tenth(s) == s % 10
\* a standard normal variate, in whole standard deviations
Deviate(s) == (s % 9) - 4

Normal(loc, scale, s) ==
    [dist |-> "normal", loc |-> loc, scale |-> scale,
     value |-> loc + scale * Deviate(s)]

Uniform(low, high, s) ==
    [dist |-> "uniform", loc |-> low, scale |-> high - low,
     value |-> low + ((high - low) * Tenth(s)) \div 10]

\* np.random.choice(labels, p=[0.4, 0.3, 0.3]): inverse CDF of one uniform
Choice(s) ==
    IF Tenth(s) < 4 THEN RegionLabels[1]
    ELSE IF Tenth(s) < 7 THEN RegionLabels[2]
    ELSE RegionLabels[3]

Clip_noupper(x, lo, hi) == IF x < lo THEN lo ELSE x
Clip(x, lo, hi) == IF x < lo THEN lo ELSE IF x > hi THEN hi ELSE x

----------------------------------------------------------------------------
(* Region-conditioned parameters of the generator *)

GdpMean_swapped(region) ==
    IF region = "East" THEN 800 ELSE IF region = "Central" THEN 300 ELSE 500
GdpMean(region) ==
    IF region = "East" THEN 800 ELSE IF region = "Central" THEN 500 ELSE 300
NetMean(region) == IF region = "East" THEN 90 ELSE 75
UrbanMean(region) == IF region = "East" THEN 70 ELSE 60

\* zip(cities, regions): the region paired with the city of the outer loop
CityRegion_byyear(c, yr) == regions[((yr - FirstYear) % NumCities) + 1]
CityRegion(c, yr) == regions[c]

\* the ten draws of one loop body, in program order, from generator state s
RowCalls(region, s) ==
    LET net == Normal(NetMean(region), 10, Advance(s, 1))
        urb == Normal(UrbanMean(region), 10, Advance(s, 4))
    IN  [gdp_pc       |-> Normal(GdpMean(region), 50, s),
         net_access   |-> net,
         edu_exp      |-> Normal(150, 20, Advance(s, 2)),
         med_exp      |-> Normal(100, 15, Advance(s, 3)),
         urban_ratio  |-> urb,
         policy_index |-> Uniform(0, 100, Advance(s, 5)),
         infra_noise  |-> Normal(0, 500, Advance(s, 6)),
         unemp_rate   |-> Normal(8, 3, Advance(s, 7)),
         rural_factor |-> Uniform(30, 50, Advance(s, 8)),
         urban_factor |-> Uniform(60, 90, Advance(s, 9))]

RowOf(c, yr, region, k) ==
    LET net == Clip(k.net_access.value, 50, 100)
        urb == Clip(k.urban_ratio.value, 30, 95)
        une == Clip(k.unemp_rate.value, 3, 15)
        gdp == k.gdp_pc.value
        pol == k.policy_index.value
    IN  [city |-> c, year |-> yr, region |-> region,
         gdp_pc |-> gdp, net_access |-> net,
         edu_exp |-> k.edu_exp.value, med_exp |-> k.med_exp.value,
         urban_ratio |-> urb, policy_index |-> pol,
         infra_score |-> net * 50 + urb * 30 + k.infra_noise.value,
         unemp_rate |-> une,
         rural_income |-> gdp * k.rural_factor.value + pol * 50 - une * 20,
         urban_income |-> gdp * k.urban_factor.value]

----------------------------------------------------------------------------
(* DataFrames: a frame is a sequence of rows, each carrying its index label *)

DfRow(r, label) ==
    [idx |-> label, city |-> r.city, year |-> r.year, region |-> r.region,
     gdp_pc |-> r.gdp_pc, net_access |-> r.net_access, edu_exp |-> r.edu_exp,
     med_exp |-> r.med_exp, urban_ratio |-> r.urban_ratio,
     policy_index |-> r.policy_index, infra_score |-> r.infra_score,
     unemp_rate |-> r.unemp_rate, rural_income |-> r.rural_income,
     urban_income |-> r.urban_income]

\* pd.DataFrame(data, columns=columns): a RangeIndex starting at 0
DataFrame(rows) == [i \in 1..Len(rows) |-> DfRow(rows[i], i - 1)]

\* frame[X.columns]: the eight covariate columns, index kept
Features(F) ==
    [i \in 1..Len(F) |->
        [idx |-> F[i].idx, gdp_pc |-> F[i].gdp_pc,
         net_access |-> F[i].net_access, edu_exp |-> F[i].edu_exp,
         med_exp |-> F[i].med_exp, urban_ratio |-> F[i].urban_ratio,
         policy_index |-> F[i].policy_index, infra_score |-> F[i].infra_score,
         unemp_rate |-> F[i].unemp_rate]]

\* frame['rural_income']
Target(F) == [i \in 1..Len(F) |-> [idx |-> F[i].idx, val |-> F[i].rural_income]]

Labels(F) == {F[i].idx : i \in 1..Len(F)}

\* positional take: the rows at the given (1-based) positions, in that order
Take(F, positions) == [k \in 1..Len(positions) |-> F[positions[k]]]

\* df[df['region'] == region]
RegionRows_all(F, region) == F
RegionRows(F, region) == SelectSeq(F, LAMBDA r : r.region = region)

\* df['region'].unique(): labels in order of first appearance
RECURSIVE UniqueFrom(_, _, _)
UniqueFrom(F, i, acc) ==
    IF i > Len(F) THEN acc
    ELSE IF \E k \in 1..Len(acc) : acc[k] = F[i].region
         THEN UniqueFrom(F, i + 1, acc)
         ELSE UniqueFrom(F, i + 1, Append(acc, F[i].region))
UniqueRegions(F) == UniqueFrom(F, 1, <<>>)

\* frame.copy(): a new object holding the same values
FrameCopy_alias(h, ref) == [heap |-> h, ref |-> ref]
FrameCopy(h, ref) == [heap |-> Append(h, h[ref]), ref |-> Len(h) + 1]

\* frame['policy_index'] += step, in place on the object the variable names
AddPolicy(h, ref, step) ==
    [h EXCEPT ![ref] =
        [i \in 1..Len(@) |-> [@[i] EXCEPT !.policy_index = @ + step]]]

----------------------------------------------------------------------------
(* train_test_split *)

\* number of test samples: ceil(test_size * n)
NTest(n) == (TestPct * n + 99) \div 100

\* RandomState.permutation(n): Fisher-Yates from the top index down
RECURSIVE Shuffle(_, _, _)
Shuffle(p, i, s) ==
    IF i < 2 THEN [perm |-> p, state |-> s]
    ELSE LET j == (s % i) + 1
         IN  Shuffle([p EXCEPT ![i] = p[j], ![j] = p[i]], i - 1, NextState(s))

\* positions of the test and train samples; the test block comes first
SplitPositions_overlap(n, s) ==
    LET sh == Shuffle([i \in 1..n |-> i], n, s)
    IN  [test  |-> SubSeq(sh.perm, 1, NTest(n)),
         train |-> SubSeq(sh.perm, 1, n - NTest(n)),
         state |-> sh.state,
         valid |-> n - NTest(n) > 0]
SplitPositions(n, s) ==
    LET sh == Shuffle([i \in 1..n |-> i], n, s)
    IN  [test  |-> SubSeq(sh.perm, 1, NTest(n)),
         train |-> SubSeq(sh.perm, NTest(n) + 1, n),
         state |-> sh.state,
         valid |-> n - NTest(n) > 0]

----------------------------------------------------------------------------
(* StandardScaler *)

RECURSIVE SumCol(_, _, _)
SumCol(F, c, i) == IF i = 0 THEN 0 ELSE F[i][c] + SumCol(F, c, i - 1)

RECURSIVE SumSq(_, _, _, _)
SumSq(F, c, m, i) ==
    IF i = 0 THEN 0 ELSE (F[i][c] - m) * (F[i][c] - m) + SumSq(F, c, m, i - 1)

\* integer square root by bisection
RECURSIVE IsqrtIn(_, _, _)
IsqrtIn(v, lo, hi) ==
    IF lo = hi THEN lo
    ELSE LET mid == (lo + hi + 1) \div 2
         IN  IF mid * mid <= v THEN IsqrtIn(v, mid, hi) ELSE IsqrtIn(v, lo, mid - 1)
Isqrt(v) == IsqrtIn(v, 0, 46340)

ColMean(F, c) == SumCol(F, c, Len(F)) \div Len(F)
\* a zero standard deviation is replaced by 1 (constant column)
ColScale(F, c) ==
    LET sd == Isqrt(SumSq(F, c, ColMean(F, c), Len(F)) \div Len(F))
    IN  IF sd = 0 THEN 1 ELSE sd

Unfitted ==
    [mean_ |-> [c \in Covariates |-> 0], scale_ |-> [c \in Covariates |-> 0],
     n_samples_seen_ |-> 0]

Fit(F) ==
    [mean_ |-> [c \in Covariates |-> ColMean(F, c)],
     scale_ |-> [c \in Covariates |-> ColScale(F, c)],
     n_samples_seen_ |-> Len(F)]

\* (x - mean_) / scale_, as a plain array (no index)
Scale(sc, F) ==
    [i \in 1..Len(F) |->
        [c \in Covariates |-> ((F[i][c] - sc.mean_[c]) * 100) \div sc.scale_[c]]]

\* scaler.fit_transform(F)
ScalerFitTransform(sc, log, F) ==
    [scaler |-> Fit(F), log |-> Append(log, Labels(F)), out |-> Scale(Fit(F), F)]

\* scaler.transform(F)
ScalerTransform_refit(sc, log, F) ==
    [scaler |-> Fit(F), log |-> Append(log, Labels(F)), out |-> Scale(Fit(F), F)]
ScalerTransform(sc, log, F) ==
    [scaler |-> sc, log |-> log, out |-> Scale(sc, F)]

----------------------------------------------------------------------------
(* Regression models are library code: a fitted model is determined by its  *)
(* kind, the samples it was fit on and, for a random forest built without  *)
(* random_state, the state of np.random when fit was called.               *)

Benchmarks == <<"Ridge", "RandomForest", "XGBoost", "CatBoost">>
UsesGlobalRng(kind) == kind = "RandomForest"
NoSeed == 0 - 1

FitModel(kind, Xs, ys, s) ==
    [kind |-> kind, X |-> Xs, y |-> ys,
     seed |-> IF UsesGlobalRng(kind) THEN s ELSE NoSeed]
RngAfterFit(kind, s) == IF UsesGlobalRng(kind) THEN NextState(s) ELSE s

Predict(m, Xs) == [model |-> m, X |-> Xs]

\* rmse and r2_score are functions of (y_true, y_pred)
Metrics(ys, pred) == [y_true |-> ys, y_pred |-> pred]

\* model.score(X, y): R^2 is undefined (nan, with a warning) below two samples
ScoreKind(Xs) == IF Len(Xs) < 2 THEN "nan" ELSE "r2"

----------------------------------------------------------------------------
NoModel == [kind |-> "none"]
NoPrev == [run |-> 0]

Fresh ==
    /\ pc = "seed"
    /\ rng \in 0..(NumEntropy - 1)
    /\ regions = <<>>
    /\ city = 0
    /\ year = 0
    /\ data = <<>>
    /\ calls = <<>>
    /\ heap = <<>>
    /\ df = 0 /\ X = 0 /\ X_train = 0 /\ X_test = 0 /\ X_sim = 0
    /\ y = <<>> /\ y_train = <<>> /\ y_test = <<>>
    /\ scaler = Unfitted
    /\ fitlog = <<>>
    /\ X_train_scaled = <<>> /\ X_test_scaled = <<>> /\ X_sim_scaled = <<>>
    /\ results = <<>>
    /\ shap = NoModel
    /\ regional = <<>>
    /\ policy = NoModel

Init ==
    /\ Fresh
    /\ run = 1
    /\ bitgen \in 0..(NumStreams - 1)
    /\ entropy = rng
    /\ prev = NoPrev

\* np.random.seed(42)
SeedRng ==
    /\ pc = "seed"
    /\ rng' = SeedState(GenSeed, rng)
    /\ pc' = "regions"
    /\ UNCHANGED <<run, bitgen, entropy, genVars, frameVars, scalerVars, evalVars, prev>>

\* regions = np.random.choice([...], size=100, p=[0.4, 0.3, 0.3])
DrawRegions ==
    /\ pc = "regions"
    /\ regions' = [c \in Cities |-> Choice(Advance(rng, c - 1))]
    /\ rng' = Advance(rng, NumCities)
    /\ city' = 1
    /\ year' = FirstYear
    /\ pc' = "rows"
    /\ UNCHANGED <<run, bitgen, entropy, data, calls, frameVars, scalerVars, evalVars, prev>>

\* one execution of the body of the nested loops, and the loop stepping
GenRow ==
    /\ pc = "rows"
    /\ city \in Cities
    /\ LET region == CityRegion(city, year)
           k == RowCalls(region, rng)
       IN  /\ data' = Append(data, RowOf(city, year, region, k))
           /\ calls' = Append(calls, k)
    /\ rng' = Advance(rng, 10)
    /\ IF year + 1 \in Years
          THEN /\ year' = year + 1
               /\ city' = city
               /\ pc' = pc
          ELSE /\ year' = FirstYear
               /\ city' = city + 1
               /\ pc' = IF city + 1 \in Cities THEN "rows" ELSE "df"
    /\ UNCHANGED <<run, bitgen, entropy, regions, frameVars, scalerVars, evalVars, prev>>

\* df = pd.DataFrame(data, columns=columns)
MakeFrame ==
    /\ pc = "df"
    /\ heap' = Append(heap, DataFrame(data))
    /\ df' = Len(heap) + 1
    /\ pc' = "xy"
    /\ UNCHANGED <<run, bitgen, entropy, rng, genVars, X, X_train, X_test, X_sim,
                   y, y_train, y_test, scalerVars, evalVars, prev>>

\* X = df[[...]]; y = df['rural_income']
SelectXy ==
    /\ pc = "xy"
    /\ heap' = Append(heap, Features(heap[df]))
    /\ X' = Len(heap) + 1
    /\ y' = Target(heap[df])
    /\ pc' = "split"
    /\ UNCHANGED <<run, bitgen, entropy, rng, genVars, df, X_train, X_test, X_sim,
                   y_train, y_test, scalerVars, evalVars, prev>>

\* X_train, X_test, y_train, y_test = train_test_split(X, y, 0.2, random_state=0)
SplitMain ==
    /\ pc = "split"
    /\ LET sp == SplitPositions(Len(heap[X]), SeedState(SplitSeed, 0))
       IN  /\ heap' = heap \o <<Take(heap[X], sp.train), Take(heap[X], sp.test)>>
           /\ X_train' = Len(heap) + 1
           /\ X_test' = Len(heap) + 2
           /\ y_train' = Take(y, sp.train)
           /\ y_test' = Take(y, sp.test)
           /\ pc' = IF sp.valid THEN "fit_scaler" ELSE "error"
    /\ UNCHANGED <<run, bitgen, entropy, rng, genVars, df, X, X_sim, y,
                   scalerVars, evalVars, prev>>

\* scaler = StandardScaler(); X_train_scaled = scaler.fit_transform(X_train)
FitScaler ==
    /\ pc = "fit_scaler"
    /\ LET t == ScalerFitTransform(Unfitted, fitlog, heap[X_train])
       IN  /\ scaler' = t.scaler
           /\ fitlog' = t.log
           /\ X_train_scaled' = t.out
    /\ pc' = "transform_test"
    /\ UNCHANGED <<run, bitgen, entropy, rng, genVars, frameVars,
                   X_test_scaled, X_sim_scaled, evalVars, prev>>

\* X_test_scaled = scaler.transform(X_test)
TransformTest ==
    /\ pc = "transform_test"
    /\ LET t == ScalerTransform(scaler, fitlog, heap[X_test])
       IN  /\ scaler' = t.scaler
           /\ fitlog' = t.log
           /\ X_test_scaled' = t.out
    /\ pc' = "bench"
    /\ UNCHANGED <<run, bitgen, entropy, rng, genVars, frameVars,
                   X_train_scaled, X_sim_scaled, evalVars, prev>>

\* train_and_evaluate(model, name): fit on the scaled training data, predict
\* and score on the scaled test data
Evaluate(kind, s) ==
    LET m == FitModel(kind, X_train_scaled, y_train, s)
    IN  [name |-> kind, model |-> m,
         metrics |-> Metrics(y_test, Predict(m, X_test_scaled))]

\* the four train_and_evaluate calls, in order
TrainEvaluate ==
    /\ pc = "bench"
    /\ LET kind == Benchmarks[Len(results) + 1]
       IN  /\ results' = Append(results, Evaluate(kind, rng))
           /\ rng' = RngAfterFit(kind, rng)
    /\ pc' = IF Len(results) + 1 = Len(Benchmarks) THEN "shap" ELSE "bench"
    /\ UNCHANGED <<run, bitgen, entropy, genVars, frameVars, scalerVars,
                   shap, regional, policy, prev>>

\* model = RandomForestRegressor(100).fit(X_train_scaled, y_train)
\* explainer = shap.Explainer(model.predict, X_test_scaled); explainer(X_test_scaled)
Attribution ==
    /\ pc = "shap"
    /\ shap' = [kind |-> "shap",
                model |-> FitModel("RandomForest", X_train_scaled, y_train, rng),
                background |-> X_test_scaled,
                explained |-> X_test_scaled]
    /\ rng' = RngAfterFit("RandomForest", rng)
    /\ pc' = "regional"
    /\ UNCHANGED <<run, bitgen, entropy, genVars, frameVars, scalerVars,
                   results, regional, policy, prev>>

\* one iteration of: for region in df['region'].unique()
RegionalStep(F, region, s) ==
    LET sub == RegionRows(F, region)
        Xr == Features(sub)
        yr == Target(sub)
        sp == SplitPositions(Len(sub), s)
        m  == FitModel("RandomForest", Take(Xr, sp.train), Take(yr, sp.train), sp.state)
    IN  [region |-> region,
         sub |-> Labels(sub),
         train |-> Labels(Take(Xr, sp.train)),
         test |-> Labels(Take(Xr, sp.test)),
         valid |-> sp.valid,
         model |-> m,
         scored_on |-> Take(Xr, sp.test),
         outcome |-> IF ~sp.valid THEN "ValueError" ELSE ScoreKind(Take(Xr, sp.test)),
         state |-> RngAfterFit("RandomForest", sp.state)]

RegionalModel ==
    /\ pc = "regional"
    /\ LET todo == UniqueRegions(heap[df])
           r == RegionalStep(heap[df], todo[Len(regional) + 1], rng)
       IN  /\ regional' = Append(regional, r)
           /\ rng' = r.state
           /\ pc' = IF ~r.valid THEN "error"
                    ELSE IF Len(regional) + 1 = Len(todo) THEN "policy"
                    ELSE "regional"
    /\ UNCHANGED <<run, bitgen, entropy, genVars, frameVars, scalerVars,
                   results, shap, policy, prev>>

\* X_sim = X_test.copy(); X_sim['policy_index'] += 0.2
\* X_sim_scaled = scaler.transform(X_sim)
\* model_final = RandomForestRegressor().fit(X_train_scaled, y_train)
\* y_before = model_final.predict(X_test_scaled); y_after = ...(X_sim_scaled)
PolicySimulation ==
    /\ pc = "policy"
    /\ LET cp == FrameCopy(heap, X_test)
           h2 == AddPolicy(cp.heap, cp.ref, PolicyStep)
           t  == ScalerTransform(scaler, fitlog, h2[cp.ref])
           m  == FitModel("RandomForest", X_train_scaled, y_train, rng)
       IN  /\ heap' = h2
           /\ X_sim' = cp.ref
           /\ scaler' = t.scaler
           /\ fitlog' = t.log
           /\ X_sim_scaled' = t.out
           /\ policy' = [kind |-> "policy", model |-> m,
                         y_before |-> Predict(m, X_test_scaled),
                         y_after |-> Predict(m, t.out)]
    /\ rng' = RngAfterFit("RandomForest", rng)
    /\ pc' = "done"
    /\ UNCHANGED <<run, bitgen, entropy, genVars, df, X, X_train, X_test,
                   y, y_train, y_test, X_train_scaled, X_test_scaled,
                   results, shap, regional, prev>>

\* the notebook is run a second time in a new process: nothing survives but
\* what the first run printed
Rerun ==
    /\ pc = "done"
    /\ run = 1
    /\ prev' = [run |-> 1, entropy |-> entropy, table |-> heap[df],
                train |-> heap[X_train], test |-> heap[X_test],
                scaler |-> scaler, ridge |-> results[1].metrics]
    /\ run' = 2
    /\ pc' = "seed"
    /\ rng' \in 0..(NumEntropy - 1)
    /\ entropy' = rng'
    /\ regions' = <<>>
    /\ city' = 0
    /\ year' = 0
    /\ data' = <<>>
    /\ calls' = <<>>
    /\ heap' = <<>>
    /\ df' = 0 /\ X' = 0 /\ X_train' = 0 /\ X_test' = 0 /\ X_sim' = 0
    /\ y' = <<>> /\ y_train' = <<>> /\ y_test' = <<>>
    /\ scaler' = Unfitted
    /\ fitlog' = <<>>
    /\ X_train_scaled' = <<>> /\ X_test_scaled' = <<>> /\ X_sim_scaled' = <<>>
    /\ results' = <<>>
    /\ shap' = NoModel
    /\ regional' = <<>>
    /\ policy' = NoModel
    /\ UNCHANGED bitgen

Next ==
    \/ SeedRng
    \/ DrawRegions
    \/ GenRow
    \/ MakeFrame
    \/ SelectXy
    \/ SplitMain
    \/ FitScaler
    \/ TransformTest
    \/ TrainEvaluate
    \/ Attribution
    \/ RegionalModel
    \/ PolicySimulation
    \/ Rerun

Spec == Init /\ [][Next]_vars

----------------------------------------------------------------------------
(* Properties *)

Generated == pc \notin {"seed", "regions", "rows"}
SplitDone == pc \in {"fit_scaler", "transform_test", "bench", "shap",
                     "regional", "policy", "done"}
ScalerFitted == pc \in {"transform_test", "bench", "shap", "regional",
                        "policy", "done"}
RowsOfCity(c) == {i \in 1..Len(data) : data[i].city = c}
RegionsInTable == {data[i].region : i \in 1..Len(data)}

\* C1: once the generator has finished, the table has one row per city and
\* year (100 x 5 = 500 in the program): every city identifier occurs in
\* exactly 5 rows and these carry the 5 distinct years 2018..2022, so that no
\* (city, year) pair occurs twice and no year lies outside [2018, 2022].
C1_TableShape ==
    Generated =>
        /\ CityCount * Cardinality(Years) = 500
        /\ Len(data) = NumCities * 5
        /\ \A i \in 1..Len(data) : data[i].city \in Cities
        /\ \A c \in Cities :
              /\ Cardinality(RowsOfCity(c)) = 5
              /\ {data[i].year : i \in RowsOfCity(c)} = 2018..2022
        /\ \A i, j \in 1..Len(data) :
              (data[i].city = data[j].city /\ data[i].year = data[j].year) => i = j
        /\ df # 0 => Len(heap[df]) = Len(data)

C1_Witness ==
    /\ pc = "xy"
    /\ Len(heap[df]) = NumCities * 5
    /\ data[1].year = 2018 /\ data[5].year = 2022 /\ data[6].city = 2

\* C2: any two rows of the same city carry the same region, which is the one
\* label drawn for that city, and every row's region is one of the three labels.
C2_RegionPerCity ==
    /\ \A i, j \in 1..Len(data) :
          data[i].city = data[j].city => data[i].region = data[j].region
    /\ \A i \in 1..Len(data) :
          /\ data[i].region \in {"East", "Central", "West"}
          /\ data[i].region = regions[data[i].city]

C2_Witness ==
    /\ Generated
    /\ Cardinality(RegionsInTable) >= 2
    /\ \E i, j \in 1..Len(data) : i # j /\ data[i].city = data[j].city

\* C3: in every row the clipped covariates lie within their bounds whatever
\* the normal draw was: 0.5 <= net_access <= 1.0, 0.3 <= urban_ratio <= 0.95,
\* 0.03 <= unemp_rate <= 0.15; a draw below the lower bound is stored as the
\* lower bound and a draw above the upper bound as the upper bound.
Clipped(raw, stored, lo, hi) ==
    /\ lo <= stored /\ stored <= hi
    /\ raw < lo => stored = lo
    /\ raw > hi => stored = hi

C3_ClippedBounds ==
    \A i \in 1..Len(data) :
        /\ Clipped(calls[i].net_access.value, data[i].net_access, 50, 100)
        /\ Clipped(calls[i].urban_ratio.value, data[i].urban_ratio, 30, 95)
        /\ Clipped(calls[i].unemp_rate.value, data[i].unemp_rate, 3, 15)

C3_Witness ==
    /\ \E i \in 1..Len(data) : calls[i].net_access.value < 50
    /\ \E i \in 1..Len(data) : calls[i].net_access.value > 100
    /\ \E i \in 1..Len(data) : calls[i].urban_ratio.value < 30
    /\ \E i \in 1..Len(data) : calls[i].urban_ratio.value > 95
    /\ \E i \in 1..Len(data) : calls[i].unemp_rate.value < 3
    /\ \E i \in 1..Len(data) : calls[i].unemp_rate.value > 15

\* C4: the scaler is fitted exactly once, on the rows of the training
\* partition only, and its parameters stay what that fit produced through
\* every later step (transform of the test partition, benchmarks, attribution,
\* regional models, policy counterfactual); no test row is among the rows seen.
TrainRowsOfTable == SelectSeq(heap[df], LAMBDA r : r.idx \in Labels(heap[X_train]))

C4_ScalerTrainOnly ==
    /\ ~ScalerFitted => (fitlog = <<>> /\ scaler = Unfitted)
    /\ ScalerFitted =>
          /\ Len(fitlog) = 1
          /\ fitlog[1] = Labels(heap[X_train])
          /\ fitlog[1] \cap Labels(heap[X_test]) = {}
          /\ scaler.n_samples_seen_ = Len(heap[X_train])
          /\ \A c \in Covariates :
                /\ scaler.mean_[c] = ColMean(TrainRowsOfTable, c)
                /\ scaler.scale_[c] = ColScale(TrainRowsOfTable, c)

C4_Witness ==
    /\ pc = "done"
    /\ Len(fitlog) = 1
    /\ Len(X_test_scaled) > 0 /\ Len(X_sim_scaled) > 0
    /\ Fit(heap[X]) # scaler

\* C5: the policy counterfactual leaves the generated table, the covariate
\* table and the test covariates exactly as they were, and binds X_sim to a
\* new table with the rows of X_test, policy_index increased by 0.2 in every
\* row and the other seven covariates equal to the original.
C5_PolicyCopy ==
    [][pc = "policy" =>
         /\ heap'[df] = heap[df]
         /\ heap'[X] = heap[X]
         /\ heap'[X_test] = heap[X_test]
         /\ X_test' = X_test /\ df' = df
         /\ X_sim' \notin {df, X, X_train, X_test}
         /\ Len(heap'[X_sim']) = Len(heap[X_test])
         /\ \A i \in 1..Len(heap[X_test]) :
               /\ heap'[X_sim'][i].policy_index = heap[X_test][i].policy_index + 20
               /\ \A c \in (Covariates \ {"policy_index"}) \cup {"idx"} :
                     heap'[X_sim'][i][c] = heap[X_test][i][c]]_vars

C5_Witness ==
    /\ pc = "done"
    /\ X_sim # 0
    /\ Len(heap[X_sim]) >= 2
    /\ heap[X_sim][1].policy_index = heap[X_test][1].policy_index + 20

\* C6 (as stated): every one of the eight covariates is drawn independently
\* from a normal distribution whose mean depends on the region (gdp_pc:
\* 80000 / 50000 / 30000 with standard deviation 5000).
DrawOf(i, c) == IF c = "infra_score" THEN calls[i].infra_noise ELSE calls[i][c]
StoredDraw(i, c) ==
    IF c = "net_access" THEN Clip(DrawOf(i, c).value, 50, 100)
    ELSE IF c = "urban_ratio" THEN Clip(DrawOf(i, c).value, 30, 95)
    ELSE IF c = "unemp_rate" THEN Clip(DrawOf(i, c).value, 3, 15)
    ELSE DrawOf(i, c).value

C6_AllNormalByRegion ==
    /\ \A i \in 1..Len(data) : \A c \in Covariates :
          /\ DrawOf(i, c).dist = "normal"
          /\ data[i][c] = StoredDraw(i, c)
    /\ \A i \in 1..Len(data) :
          /\ DrawOf(i, "gdp_pc").scale = 50
          /\ DrawOf(i, "gdp_pc").loc =
                (IF data[i].region = "East" THEN 800
                 ELSE IF data[i].region = "Central" THEN 500 ELSE 300)
    /\ (Generated /\ Cardinality(RegionsInTable) = 3) =>
          \A c \in Covariates : \E i, j \in 1..Len(data) :
              DrawOf(i, c).loc # DrawOf(j, c).loc

\* C6 (amended): gdp_pc, net_access and urban_ratio are normal draws whose
\* mean is selected by the region (gdp_pc 80000/50000/30000, sd 5000;
\* net_access 0.9 for East, else 0.75, sd 0.1; urban_ratio 0.7 for East, else
\* 0.6, sd 0.1); edu_exp (15000, 2000), med_exp (10000, 1500) and unemp_rate
\* (0.08, 0.03) are normal draws with the same mean in every region;
\* policy_index is a uniform draw on [0, 1); infra_score is not drawn on its
\* own but computed as 50 net_access + 30 urban_ratio + normal(0, 5) noise.
IsNormal(d, loc, scale) == d.dist = "normal" /\ d.loc = loc /\ d.scale = scale

C6_RegionConditioned ==
    \A i \in 1..Len(data) :
        LET east == data[i].region = "East"
            k == calls[i]
        IN  /\ IsNormal(k.gdp_pc,
                        IF east THEN 800
                        ELSE IF data[i].region = "Central" THEN 500 ELSE 300, 50)
            /\ IsNormal(k.net_access, IF east THEN 90 ELSE 75, 10)
            /\ IsNormal(k.edu_exp, 150, 20)
            /\ IsNormal(k.med_exp, 100, 15)
            /\ IsNormal(k.urban_ratio, IF east THEN 70 ELSE 60, 10)
            /\ IsNormal(k.unemp_rate, 8, 3)
            /\ IsNormal(k.infra_noise, 0, 500)
            /\ k.policy_index.dist = "uniform"
            /\ k.policy_index.loc = 0 /\ k.policy_index.scale = 100
            /\ 0 <= data[i].policy_index /\ data[i].policy_index < 100
            /\ \A c \in Covariates \ {"infra_score"} : data[i][c] = StoredDraw(i, c)
            /\ data[i].infra_score =
                  50 * data[i].net_access + 30 * data[i].urban_ratio
                  + k.infra_noise.value

C6_Witness ==
    /\ Generated
    /\ Cardinality(RegionsInTable) = 3
    /\ \E i \in 1..Len(data) : calls[i].infra_noise.value # 0
    /\ \E i, j \in 1..Len(data) :
          /\ data[i].region # data[j].region
          /\ calls[i].edu_exp.loc = calls[j].edu_exp.loc

\* C7: a second, separate run with the same two seeds reproduces the table,
\* the train/test partition, the scaler parameters and the inputs of the
\* Ridge RMSE and R^2, whatever state the generator had when the process
\* started.
C7_SeededDeterminism ==
    run = 2 =>
        /\ df # 0 => heap[df] = prev.table
        /\ SplitDone => (heap[X_train] = prev.train /\ heap[X_test] = prev.test)
        /\ ScalerFitted => scaler = prev.scaler
        /\ Len(results) >= 1 => results[1].metrics = prev.ridge

C7_Witness ==
    /\ run = 2
    /\ entropy # prev.entropy
    /\ Len(results) >= 1
    /\ results[1].name = "Ridge"

\* C8: each regional model is fit and scored on rows of its own region only:
\* the region's train and test partitions are disjoint, together they are
\* exactly the rows of that region, and once the loop has finished every row
\* of the table lies in exactly one region's subset.
LabelsOfRegion(region) ==
    {heap[df][i].idx : i \in {n \in 1..Len(heap[df]) : heap[df][n].region = region}}

C8_RegionalIsolation ==
    /\ \A k \in 1..Len(regional) :
          LET r == regional[k]
          IN  /\ r.sub = LabelsOfRegion(r.region)
              /\ r.train \cap r.test = {}
              /\ r.train \cup r.test = r.sub
              /\ Labels(r.model.X) = r.train
              /\ Labels(r.model.y) = r.train
              /\ Labels(r.scored_on) = r.test
              /\ r.train \subseteq LabelsOfRegion(r.region)
              /\ r.test \subseteq LabelsOfRegion(r.region)
    /\ pc \in {"policy", "done"} =>
          \A i \in 1..Len(heap[df]) :
              Cardinality({k \in 1..Len(regional) :
                              heap[df][i].idx \in regional[k].sub}) = 1

C8_Witness ==
    /\ pc = "done"
    /\ Len(regional) = 3
    /\ \A k \in 1..Len(regional) : regional[k].train # {} /\ regional[k].test # {}

\* C9: a region whose subset is too small for a meaningful split and score
\* (fewer than 10 rows: a one-row test partition) is reported as a
\* data-quality error; a region with at least 10 rows gets non-empty train
\* and test partitions and a defined score.
C9_DegenerateReported ==
    \A k \in 1..Len(regional) :
        LET r == regional[k]
        IN  /\ Cardinality(r.sub) < 10 => r.outcome = "data_quality_error"
            /\ Cardinality(r.sub) >= 10 =>
                  (r.train # {} /\ r.test # {} /\ r.outcome = "r2")

\* C10: the main split partitions the table 80/20 (400 and 100 of 500 rows),
\* train and test are disjoint and cover every row, and every benchmark
\* model, the attribution model and the counterfactual model are fit on
\* training rows only and scored or queried on test rows only.
FitOnTrain(m) == m.X = X_train_scaled /\ m.y = y_train /\ Labels(m.y) = Labels(heap[X_train])

C10_MainSplit ==
    /\ NTest(CityCount * 5) = 100
    /\ SplitDone =>
          /\ Labels(heap[X_train]) \cap Labels(heap[X_test]) = {}
          /\ Labels(heap[X_train]) \cup Labels(heap[X_test]) = Labels(heap[df])
          /\ 5 * Len(heap[X_test]) = Len(heap[df])
          /\ 5 * Len(heap[X_train]) = 4 * Len(heap[df])
          /\ Cardinality(Labels(heap[X_train])) = Len(heap[X_train])
          /\ Cardinality(Labels(heap[X_test])) = Len(heap[X_test])
          /\ Labels(y_train) = Labels(heap[X_train])
          /\ Labels(y_test) = Labels(heap[X_test])
    /\ \A k \in 1..Len(results) :
          /\ FitOnTrain(results[k].model)
          /\ results[k].metrics.y_true = y_test
          /\ Labels(results[k].metrics.y_true) = Labels(heap[X_test])
          /\ results[k].metrics.y_pred.X = X_test_scaled
          /\ results[k].metrics.y_pred.model = results[k].model
    /\ shap.kind = "shap" => FitOnTrain(shap.model)
    /\ policy.kind = "policy" => FitOnTrain(policy.model)

C10_Witness ==
    /\ pc = "done"
    /\ Len(results) = 4
    /\ Len(heap[X_test]) = NumCities
    /\ Len(heap[X_train]) = 4 * NumCities

====
